---- MODULE Spec2Model ----
(***************************************************************************)
(* A/B testing service of the Toronto Trendspotter frontend                *)
(* (frontend/src/services/ab-testing.ts).                                  *)
(*                                                                         *)
(* One ABTestingService instance lives in every open tab; the tabs of one  *)
(* browser profile share one localStorage item.  The constructor runs      *)
(* loadAssignedVariants (one read of the item) and assignMissingVariants   *)
(* (in-memory draws, then one write of the item); the two storage accesses *)
(* of different tabs interleave.                                           *)
(*                                                                         *)
(* A Map or a JSON object is a function whose DOMAIN is its key set.       *)
(* Math.random() is a point k / RandomGrid of a grid on [0,1); weights are *)
(* integers in units of 1 / WeightScale.                                   *)
(***************************************************************************)
EXTENDS Integers, Sequences, FiniteSets, TLC

\* ------------------------------------------------------------ bounds
\* Refinement of the random grid relative to the weight unit.
GridRefine == 1
\* Number of tracking calls on enabled tests a tab makes between two reloads.
MaxCalls == 3
\* Number of configuration changes (builds toggling an enabled flag).
MaxDeploys == 2
\* Largest variant list of the configurations the assignment is tried on.
MaxVariants == 3
\* Number of entries of AVAILABLE_TESTS, from the first, the build is run with.
NumTests == 2

\* Weights are written in tenths (0.4, 0.3, 0.3).
WeightScale == 10
RandomGrid == WeightScale * GridRefine
Randoms == 0 .. (RandomGrid - 1)

\* ------------------------------------------------------------ configuration
NULL == "null"
Tabs == {"tab1", "tab2"}

\* The configured tests in full; the three tests without a distribution differ
\* in their names only.
ALL_TESTS ==
  << [name |-> "recommendation_explanation", enabled |-> TRUE,
      variants |-> <<"A", "B">>, hasDistribution |-> FALSE, distribution |-> <<>>],
     [name |-> "homepage_layout", enabled |-> FALSE,
      variants |-> <<"Standard", "LocationFirst", "PersonalizedFirst">>,
      hasDistribution |-> TRUE, distribution |-> <<4, 3, 3>>],
     [name |-> "search_interface", enabled |-> TRUE,
      variants |-> <<"Basic", "Advanced">>, hasDistribution |-> FALSE, distribution |-> <<>>],
     [name |-> "location_priority", enabled |-> TRUE,
      variants |-> <<"Global", "Local">>, hasDistribution |-> FALSE, distribution |-> <<>>] >>

AVAILABLE_TESTS ==
  SubSeq(ALL_TESTS, 1, IF NumTests < Len(ALL_TESTS) THEN NumTests ELSE Len(ALL_TESTS))

TestName == {AVAILABLE_TESTS[k].name : k \in 1 .. Len(AVAILABLE_TESTS)}

\* A name outside AVAILABLE_TESTS: what find() does not find.
UnknownTest == "unknown_test"
Names == TestName \cup {UnknownTest}

\* AVAILABLE_TESTS.find(t => t.name === testName); only used for known names.
FindTest(testName) ==
  AVAILABLE_TESTS[CHOOSE k \in 1 .. Len(AVAILABLE_TESTS) : AVAILABLE_TESTS[k].name = testName]

EmptyMap == [x \in {} |-> NULL]

\* The variant names configured for a test.
VariantsOf(t) == {FindTest(t).variants[k] : k \in 1 .. Len(FindTest(t).variants)}

VARIABLES
  enabled,           \* the enabled flag of each test in the deployed build
  store,             \* the parsed localStorage item (EmptyMap: no item)
  pc,                \* per tab: "none", "loaded" (inside the constructor), "ready"
  pos,               \* per tab: position of the forEach in AVAILABLE_TESTS
  access,            \* per tab: "ok", "denied" (every storage access threw), "quota" (the write threw)
  assignedVariants,  \* per tab: Map<TestName, string>
  testMetrics,       \* per tab: Map<TestName, TestMetrics>
  returned,          \* history: the first variant getVariant returned for each test since it was enabled
  after,             \* history: per tab, the tests with a variant returned in it or before it was constructed
  priorVariant,      \* history: the variant the item held for a test when a build enabled it again
  tracked,           \* history: per tab and test, the tracking calls made while the test was enabled
  lastMetrics,       \* history: per tab, the records with counts getMetrics reported when the tab was restarted
  deploys,           \* number of configuration changes so far
  pickTest, pickRandom, pickVariant,  \* one assignment tried in isolation
  logPc,             \* position of one logInteraction call: "idle", "posting", "posted", "done"
  logCall,           \* its arguments
  logOutcome,        \* what the backend request came to
  apiSettled,        \* how the promise of api.logInteraction settled
  svcSettled,        \* how the promise of interactionService.logInteraction settled
  savedItems,        \* the parsed trendspotter_saved_items item
  rankUser,          \* the user's preferred neighborhoods, the primary one first
  rankCands,         \* the candidates of a rank call, by identifier
  rankFailure,       \* the scorer that errors, and the candidate it errors for
  rankCount,         \* the count of the rank call
  rankArrival,       \* the order the scored candidates are joined in
  rankScored,        \* the sub-scores and the blended score of each candidate
  rankResult,        \* the identifiers rank returned, in order
  rankFirst,         \* history: the result of the first rank call
  blendWeights, blendSubs, blendOut,  \* one blend tried in isolation
  joinSubs,          \* the sub-scores the concurrent scorer invocations have delivered
  joinBlended,       \* the blended score of each candidate blended so far
  joinResult,        \* the result of the terminal sort
  homePc,            \* HomePage: "unmounted", "rendered" (effect pending), "mounted"
  abTestVariant,     \* HomePage: the abTestVariant state
  homeCalls,         \* history: the tracking calls HomePage made since it was mounted
  savedLast,         \* history: the last saved-items call and what it returned
  currentUser,       \* UserProvider: the user state
  isLoading,         \* UserProvider: the isLoading state
  userError,         \* UserProvider: the error state
  userRecord,        \* the parsed trendspotter_user item
  userLast,          \* history: the last UserProvider operation and the state it started in
  lookupId,          \* the contentId of one getContentById call
  lookupPc,          \* its position: "idle", "direct", "popular", a category index, "done"
  lookupTrace,       \* history: the requests it made and what each came to
  lookupSettled      \* how its promise settled

vars == <<enabled, store, pc, pos, access, assignedVariants, testMetrics, returned, after,
          priorVariant, tracked, lastMetrics, deploys,
          pickTest, pickRandom, pickVariant,
          logPc, logCall, logOutcome, apiSettled, svcSettled, savedItems,
          rankUser, rankCands, rankFailure, rankCount, rankArrival, rankScored, rankResult,
          rankFirst, blendWeights, blendSubs, blendOut,
          joinSubs, joinBlended, joinResult, homePc, abTestVariant, homeCalls, savedLast,
          currentUser, isLoading, userError, userRecord, userLast,
          lookupId, lookupPc, lookupTrace, lookupSettled>>

svcVars == <<enabled, store, pc, pos, access, assignedVariants, testMetrics, returned, after,
             priorVariant, tracked, lastMetrics, deploys>>
pickVars == <<pickTest, pickRandom, pickVariant>>
logVars == <<logPc, logCall, logOutcome, apiSettled, svcSettled, savedItems>>
rankVars == <<rankUser, rankCands, rankFailure, rankCount, rankArrival, rankScored, rankResult,
              rankFirst>>
blendVars == <<blendWeights, blendSubs, blendOut>>
scoreVars == <<rankVars, blendVars>>
joinVars == <<joinSubs, joinBlended, joinResult>>
homeVars == <<homePc, abTestVariant, homeCalls>>
userVars == <<currentUser, isLoading, userError, userRecord, userLast>>
lookupVars == <<lookupId, lookupPc, lookupTrace, lookupSettled>>
pageVars == <<homeVars, savedLast, userVars, lookupVars>>
moreVars == <<joinVars, pageVars>>

\* ------------------------------------------------------------ assignment of one variant
\* The for loop of the weighted branch; "" when it ends without a break.  A
\* distribution shorter than the variant list makes the running sum NaN, and no
\* later comparison is true.
\* The walk with < in place of <=.
RECURSIVE WeightedWalkStrict(_, _, _, _, _)
WeightedWalkStrict(variants, distribution, random, i, cumulativeWeight) ==
  IF i > Len(variants) \/ i > Len(distribution) THEN ""
  ELSE LET c == cumulativeWeight + distribution[i] IN
       IF random < c * GridRefine THEN variants[i]
       ELSE WeightedWalkStrict(variants, distribution, random, i + 1, c)

RECURSIVE WeightedWalk(_, _, _, _, _)
WeightedWalk(variants, distribution, random, i, cumulativeWeight) ==
  IF i > Len(variants) \/ i > Len(distribution) THEN ""
  ELSE LET c == cumulativeWeight + distribution[i] IN
       IF random <= c * GridRefine THEN variants[i]
       ELSE WeightedWalk(variants, distribution, random, i + 1, c)

WeightedVariant(test, random) ==
  LET variant == WeightedWalk(test.variants, test.distribution, random, 1, 0) IN
  IF variant = "" THEN test.variants[Len(test.variants)] ELSE variant

\* The index drawn over one variant too few.
RandomIndexShort(test, random) == (random * (Len(test.variants) - 1)) \div RandomGrid

\* Math.floor(Math.random() * test.variants.length), 0-based.
RandomIndex(test, random) == (random * Len(test.variants)) \div RandomGrid

UniformVariant(test, random) == test.variants[RandomIndex(test, random) + 1]

AssignVariant(test, random) ==
  IF test.hasDistribution THEN WeightedVariant(test, random) ELSE UniformVariant(test, random)

\* ------------------------------------------------------------ maps
Has(m, k) == k \in DOMAIN m
Get(m, k) == IF Has(m, k) THEN m[k] ELSE NULL
MapSet(m, k, v) == [x \in (DOMAIN m) \cup {k} |-> IF x = k THEN v ELSE m[x]]

NewMetrics(variant) ==
  [variant |-> variant, impressions |-> 0, conversions |-> 0,
   conversionRate |-> [num |-> 0, den |-> 1]]

\* (conversions / impressions) * 100 as a fraction.
Rate(conversions, impressions) == [num |-> conversions * 100, den |-> impressions]

NoCalls == [t \in TestName |-> [impressions |-> 0, conversions |-> 0]]

\* ------------------------------------------------------------ the service
InitService ==
  /\ enabled = [t \in TestName |-> FindTest(t).enabled]
  /\ store = EmptyMap
  /\ pc = [i \in Tabs |-> "none"]
  /\ pos = [i \in Tabs |-> 1]
  /\ access = [i \in Tabs |-> "ok"]
  /\ assignedVariants = [i \in Tabs |-> EmptyMap]
  /\ testMetrics = [i \in Tabs |-> EmptyMap]
  /\ returned = [t \in TestName |-> NULL]
  /\ after = [i \in Tabs |-> {}]
  /\ priorVariant = [t \in TestName |-> NULL]
  /\ tracked = [i \in Tabs |-> NoCalls]
  /\ lastMetrics = [i \in Tabs |-> EmptyMap]
  /\ deploys = 0

\* No logInteraction call in flight, no saved items.
Pending == [state |-> "pending", value |-> "none"]
NoCall == [userId |-> "none", contentId |-> 0, type |-> "none"]

InitLog ==
  /\ logPc = "idle"
  /\ logCall = NoCall
  /\ logOutcome = "none"
  /\ apiSettled = Pending
  /\ svcSettled = Pending
  /\ savedItems = EmptyMap

\* No rank call made, no blend tried.
NoFailure == [id |-> 0, scorer |-> "none"]
NoResult == [set |-> FALSE, result |-> <<>>]
NotBlended == -1

InitBlendIdle ==
  /\ blendWeights = <<>>
  /\ blendSubs = <<>>
  /\ blendOut = NotBlended

InitRankIdle ==
  /\ rankUser = <<>>
  /\ rankCands = <<>>
  /\ rankFailure = NoFailure
  /\ rankCount = 0
  /\ rankArrival = <<>>
  /\ rankScored = <<>>
  /\ rankResult = <<>>
  /\ rankFirst = NoResult

InitPickIdle ==
  /\ pickTest = ALL_TESTS[2]
  /\ pickRandom = 0
  /\ pickVariant = ""

\* No scorer invoked, HomePage not mounted, nobody logged in, no lookup made.
NoSaved == [op |-> "none", userId |-> "none", contentId |-> 0, result |-> FALSE,
            before |-> EmptyMap, storageOk |-> TRUE]
\* null as a user: the state of a logged-out provider, an absent item.
NoUser == [id |-> "none", interests |-> <<>>, neighborhoodPreferences |-> <<>>]
NoUserOp == [op |-> "none", userId |-> "none", currentUser |-> NoUser, userRecord |-> NoUser,
             userError |-> NULL, isLoading |-> FALSE, storageOk |-> TRUE]

InitJoinIdle ==
  /\ joinSubs = EmptyMap
  /\ joinBlended = EmptyMap
  /\ joinResult = NoResult

InitHomeIdle ==
  /\ homePc = "unmounted"
  /\ abTestVariant = NULL
  /\ homeCalls = [impressions |-> 0, conversions |-> 0]

InitUserIdle ==
  /\ currentUser = NoUser
  /\ isLoading = FALSE
  /\ userError = NULL
  /\ userRecord = NoUser
  /\ userLast = NoUserOp

InitLookupIdle ==
  /\ lookupId = 0
  /\ lookupPc = "idle"
  /\ lookupTrace = <<>>
  /\ lookupSettled = Pending

InitPageIdle ==
  /\ InitHomeIdle
  /\ savedLast = NoSaved
  /\ InitUserIdle
  /\ InitLookupIdle

InitMoreIdle == InitJoinIdle /\ InitPageIdle

Init ==
  /\ InitService
  /\ InitPickIdle
  /\ InitLog
  /\ InitRankIdle
  /\ InitBlendIdle
  /\ InitMoreIdle

\* constructor, first half.  Storage that throws on access (denied) leaves the
\* map empty; otherwise every entry of the item is copied, enabled or not.
loadAssignedVariants(i) ==
  /\ pc[i] = "none"
  /\ \E a \in {"ok", "denied"} :
       /\ access' = [access EXCEPT ![i] = a]
       /\ assignedVariants' = [assignedVariants EXCEPT ![i] = IF a = "ok" THEN store ELSE EmptyMap]
  /\ pc' = [pc EXCEPT ![i] = "loaded"]
  /\ after' = [after EXCEPT ![i] = {t \in TestName : returned[t] # NULL}]
  /\ UNCHANGED <<enabled, store, pos, testMetrics, returned, priorVariant, tracked, lastMetrics, deploys, pickVars, logVars, scoreVars, moreVars>>

\* The iteration without the return on a disabled test.
SkipsAssigned(i, k) == Has(assignedVariants[i], AVAILABLE_TESTS[k].name)

\* One iteration of the forEach over AVAILABLE_TESTS, at position k, with the
\* value Math.random() gives if the iteration draws: the assigned map after it.
Skips(i, k) ==
  ~enabled[AVAILABLE_TESTS[k].name] \/ Has(assignedVariants[i], AVAILABLE_TESTS[k].name)

AssignedAfter(i, k, random) ==
  IF Skips(i, k) THEN assignedVariants[i]
  ELSE MapSet(assignedVariants[i], AVAILABLE_TESTS[k].name,
              AssignVariant(AVAILABLE_TESTS[k], random))

\* The metrics initialisation moved before the skips: a record for every test
\* that has a variant after the iteration.
MetricsAfterAny(i, k, random) ==
  LET name == AVAILABLE_TESTS[k].name
      m == IF Skips(i, k) THEN assignedVariants[i]
           ELSE MapSet(assignedVariants[i], name, AssignVariant(AVAILABLE_TESTS[k], random)) IN
  IF Has(m, name) THEN MapSet(testMetrics[i], name, NewMetrics(m[name])) ELSE testMetrics[i]

\* The metrics initialisation with the first variant of the list in the record,
\* whatever was drawn.
MetricsAfterFirst(i, k, random) ==
  IF Skips(i, k) THEN testMetrics[i]
  ELSE MapSet(testMetrics[i], AVAILABLE_TESTS[k].name, NewMetrics(AVAILABLE_TESTS[k].variants[1]))

\* The metrics map after the same iteration.
MetricsAfter(i, k, random) ==
  IF Skips(i, k) THEN testMetrics[i]
  ELSE MapSet(testMetrics[i], AVAILABLE_TESTS[k].name,
              NewMetrics(AssignVariant(AVAILABLE_TESTS[k], random)))

\* The save that writes the entries of enabled tests only.
saveEnabledVariants(m, writeOk) ==
  IF writeOk THEN [t \in {x \in DOMAIN m : enabled[x]} |-> m[t]] ELSE store

\* What setItem leaves in the item: the whole map when the write succeeds; the
\* error of a failed write is caught.
saveAssignedVariants(m, writeOk) == IF writeOk THEN m ELSE store

\* constructor, second half, one forEach iteration per step; the step of the last
\* test ends with the save.  The write fails when storage is denied and may fail
\* otherwise (quota).
assignMissingVariants(i) ==
  /\ pc[i] = "loaded"
  /\ LET k == pos[i]
         last == k = Len(AVAILABLE_TESTS) IN
     \E random \in Randoms, writeOk \in BOOLEAN :
       /\ Skips(i, k) => random = 0
       /\ ~last => writeOk
       /\ (last /\ access[i] = "denied") => ~writeOk
       /\ assignedVariants' = [assignedVariants EXCEPT ![i] = AssignedAfter(i, k, random)]
       /\ testMetrics' = [testMetrics EXCEPT ![i] = MetricsAfter(i, k, random)]
       /\ store' = IF last THEN saveAssignedVariants(AssignedAfter(i, k, random), writeOk)
                   ELSE store
       /\ pos' = [pos EXCEPT ![i] = IF last THEN 1 ELSE k + 1]
       /\ pc' = [pc EXCEPT ![i] = IF last THEN "ready" ELSE "loaded"]
       /\ access' = [access EXCEPT ![i] = IF last /\ ~writeOk /\ @ = "ok" THEN "quota" ELSE @]
  /\ UNCHANGED <<enabled, returned, after, priorVariant, tracked, lastMetrics, deploys, pickVars, logVars, scoreVars, moreVars>>

\* getVariant without the check of the enabled flag.
getVariantUnchecked(i, testName) == Get(assignedVariants[i], testName)

\* getVariant reading the stored item in place of the map in memory.
getVariantStored(i, testName) ==
  IF testName \notin TestName \/ ~enabled[testName] THEN NULL
  ELSE Get(store, testName)

\* The value getVariant returns in tab i.
getVariant(i, testName) ==
  IF testName \notin TestName \/ ~enabled[testName] THEN NULL
  ELSE Get(assignedVariants[i], testName)

\* A call of getVariant; the first non-null answer per test is remembered.
GetVariant(i, testName) ==
  /\ pc[i] = "ready"
  /\ IF testName \in TestName /\ getVariant(i, testName) # NULL /\ returned[testName] = NULL
     THEN /\ returned' = [returned EXCEPT ![testName] = getVariant(i, testName)]
          /\ after' = [after EXCEPT ![i] = @ \cup {testName}]
     ELSE UNCHANGED <<returned, after>>
  /\ UNCHANGED <<enabled, store, pc, pos, access, assignedVariants, testMetrics, priorVariant, tracked,
                 lastMetrics, deploys, pickVars, logVars, scoreVars, moreVars>>

\* trackImpression that creates the record it does not find, for any known test.
trackImpressionUpsert(i, testName) ==
  IF testName \notin TestName THEN testMetrics[i]
  ELSE LET m == IF Has(testMetrics[i], testName) THEN testMetrics[i][testName]
                ELSE NewMetrics(Get(assignedVariants[i], testName))
           n == m.impressions + 1 IN
       MapSet(testMetrics[i], testName,
              [m EXCEPT !.impressions = n, !.conversionRate = Rate(m.conversions, n)])

\* The metrics map of tab i after trackImpression(testName).
trackImpression(i, testName) ==
  IF testName \notin TestName \/ ~enabled[testName] THEN testMetrics[i]
  ELSE IF ~Has(testMetrics[i], testName) THEN testMetrics[i]
  ELSE LET m == testMetrics[i][testName]
           n == m.impressions + 1 IN
       MapSet(testMetrics[i], testName,
              [m EXCEPT !.impressions = n,
                        !.conversionRate = IF n > 0 THEN Rate(m.conversions, n) ELSE @])

\* trackConversion that counts a conversion only while conversions < impressions.
trackConversionGuarded(i, testName) ==
  IF testName \notin TestName \/ ~enabled[testName] THEN testMetrics[i]
  ELSE IF ~Has(testMetrics[i], testName) THEN testMetrics[i]
  ELSE LET m == testMetrics[i][testName]
           n == IF m.conversions < m.impressions THEN m.conversions + 1 ELSE m.conversions IN
       MapSet(testMetrics[i], testName,
              [m EXCEPT !.conversions = n,
                        !.conversionRate = IF m.impressions > 0 THEN Rate(n, m.impressions) ELSE @])

\* The metrics map of tab i after trackConversion(testName).
trackConversion(i, testName) ==
  IF testName \notin TestName \/ ~enabled[testName] THEN testMetrics[i]
  ELSE IF ~Has(testMetrics[i], testName) THEN testMetrics[i]
  ELSE LET m == testMetrics[i][testName]
           n == m.conversions + 1 IN
       MapSet(testMetrics[i], testName,
              [m EXCEPT !.conversions = n,
                        !.conversionRate = IF m.impressions > 0 THEN Rate(n, m.impressions) ELSE @])

\* Calls on an enabled test are counted, up to MaxCalls in all.
Counts(testName) == testName \in TestName /\ enabled[testName]

RECURSIVE SumCalls(_, _)
SumCalls(c, S) ==
  IF S = {} THEN 0
  ELSE LET t == CHOOSE x \in S : TRUE IN
       c[t].impressions + c[t].conversions + SumCalls(c, S \ {t})

TotalCalls(i) == SumCalls(tracked[i], TestName)

TrackImpression(i, testName) ==
  /\ pc[i] = "ready"
  /\ Counts(testName) => TotalCalls(i) < MaxCalls
  /\ testMetrics' = [testMetrics EXCEPT ![i] = trackImpression(i, testName)]
  /\ tracked' = IF Counts(testName)
                THEN [tracked EXCEPT ![i][testName].impressions = @ + 1] ELSE tracked
  /\ UNCHANGED <<enabled, store, pc, pos, access, assignedVariants, returned, after, priorVariant,
                 lastMetrics, deploys, pickVars, logVars, scoreVars, moreVars>>

TrackConversion(i, testName) ==
  /\ pc[i] = "ready"
  /\ Counts(testName) => TotalCalls(i) < MaxCalls
  /\ testMetrics' = [testMetrics EXCEPT ![i] = trackConversion(i, testName)]
  /\ tracked' = IF Counts(testName)
                THEN [tracked EXCEPT ![i][testName].conversions = @ + 1] ELSE tracked
  /\ UNCHANGED <<enabled, store, pc, pos, access, assignedVariants, returned, after, priorVariant,
                 lastMetrics, deploys, pickVars, logVars, scoreVars, moreVars>>

\* this.testMetrics.get(testName) || null; NULL stands for null.
HasMetrics(i, testName) == Has(testMetrics[i], testName)

\* ------------------------------------------------------------ the environment
\* The records of a metrics map that hold a count.
Counted(m) == [t \in {x \in DOMAIN m : m[x].impressions + m[x].conversions > 0} |-> m[t]]

\* The page is reloaded or the tab closed: the module instance is gone.
Unload(i) ==
  /\ pc[i] = "ready"
  /\ pc' = [pc EXCEPT ![i] = "none"]
  /\ access' = [access EXCEPT ![i] = "ok"]
  /\ assignedVariants' = [assignedVariants EXCEPT ![i] = EmptyMap]
  /\ testMetrics' = [testMetrics EXCEPT ![i] = EmptyMap]
  /\ tracked' = [tracked EXCEPT ![i] = NoCalls]
  /\ after' = [after EXCEPT ![i] = {}]
  /\ UNCHANGED <<enabled, store, pos, returned, priorVariant, deploys, pickVars, logVars, scoreVars, moreVars>>

Reload(i) == Unload(i) /\ UNCHANGED lastMetrics

\* The same, with what getMetrics reported before it remembered.
Restart(i) == Unload(i) /\ lastMetrics' = [lastMetrics EXCEPT ![i] = Counted(testMetrics[i])]

\* A new build flips the enabled flag of one test; every tab loads it afresh.
Deploy(t) ==
  /\ deploys < MaxDeploys
  /\ \A i \in Tabs : pc[i] # "loaded"
  /\ enabled' = [enabled EXCEPT ![t] = ~@]
  /\ deploys' = deploys + 1
  /\ pc' = [i \in Tabs |-> "none"]
  /\ access' = [i \in Tabs |-> "ok"]
  /\ assignedVariants' = [i \in Tabs |-> EmptyMap]
  /\ testMetrics' = [i \in Tabs |-> EmptyMap]
  /\ tracked' = [i \in Tabs |-> NoCalls]
  /\ after' = [i \in Tabs |-> {}]
  /\ lastMetrics' = [i \in Tabs |-> EmptyMap]
  /\ returned' = [returned EXCEPT ![t] = NULL]
  /\ priorVariant' = [priorVariant EXCEPT ![t] = IF enabled[t] THEN NULL ELSE Get(store, t)]
  /\ UNCHANGED <<store, pos, pickVars, logVars, scoreVars, moreVars>>

\* Construction and the environment, for the tabs of T.
Lifecycle(T) ==
  \/ \E i \in T : loadAssignedVariants(i)
  \/ \E i \in T : assignMissingVariants(i)
  \/ \E i \in T : Reload(i)
  \/ \E t \in TestName : Deploy(t)

\* Two tabs of one browser profile.
Next == Lifecycle(Tabs)

Spec == Init /\ [][Next]_vars

\* The same with the calls of getVariant recorded.
NextReads ==
  \/ Lifecycle(Tabs)
  \/ \E i \in Tabs, t \in Names : GetVariant(i, t)

SpecReads == Init /\ [][NextReads]_vars

\* One tab and its tracking calls (the metrics of a tab are its own).
NextMetrics ==
  \/ Lifecycle({"tab1"})
  \/ \E t \in Names : TrackImpression("tab1", t)
  \/ \E t \in Names : TrackConversion("tab1", t)

SpecMetrics == Init /\ [][NextMetrics]_vars

\* One tab, its tracking calls and its restarts, under one build.
NextRestart ==
  \/ loadAssignedVariants("tab1")
  \/ assignMissingVariants("tab1")
  \/ Restart("tab1")
  \/ \E t \in TestName : TrackImpression("tab1", t)
  \/ \E t \in TestName : TrackConversion("tab1", t)

SpecRestart == Init /\ [][NextRestart]_vars

\* Two tabs and the tracking calls of both, under one build.
NextShared ==
  \/ \E i \in Tabs : loadAssignedVariants(i)
  \/ \E i \in Tabs : assignMissingVariants(i)
  \/ \E i \in Tabs, t \in TestName : TrackImpression(i, t)
  \/ \E i \in Tabs, t \in TestName : TrackConversion(i, t)

SpecShared == Init /\ [][NextShared]_vars

\* ------------------------------------------------------------ properties of the service
Ready(i) == pc[i] = "ready"

\* C1 as stated: once getVariant(e) has returned v for an enabled test, getVariant(e)
\* returns v in the same service and in every service constructed later (the item
\* is never cleared).
C1_AsStated ==
  \A i \in Tabs, t \in TestName :
    (Ready(i) /\ enabled[t] /\ t \in after[i]) => getVariant(i, t) = returned[t]

\* Both tabs drew the test themselves with working storage: each read the item
\* before the other wrote it.
Raced(t) ==
  \A i \in Tabs : Ready(i) /\ access[i] = "ok" /\ HasMetrics(i, t)

\* C2 as stated: two tabs that both load before either saves end with the same
\* variant, which is also the persisted one.
C2_AsStated ==
  \A t \in TestName :
    (enabled[t] /\ Raced(t)) =>
      \A i \in Tabs : getVariant(i, t) = getVariant("tab1", t) /\ Get(store, t) = getVariant(i, t)

\* C3: getVariant returns null for every test that is disabled or not configured,
\* also when the tab loaded a stale assignment for it from the item.
C3_NullWhenDisabledOrUnknown ==
  \A i \in Tabs, t \in Names :
    (Ready(i) /\ (t \notin TestName \/ ~enabled[t])) => getVariant(i, t) = NULL

\* A constructed tab holding a stale assignment of a disabled test, loaded from the item.
C3_Witness ==
  \E i \in Tabs, t \in TestName :
    /\ Ready(i) /\ ~enabled[t]
    /\ Has(assignedVariants[i], t) /\ Has(store, t)
    /\ getVariant(i, t) = NULL /\ getVariant(i, UnknownTest) = NULL

\* The test is disabled, unknown, or this service made no assignment for it.
NoContext(i, t) == t \notin TestName \/ ~enabled[t] \/ ~HasMetrics(i, t)

\* C4: a tracking call for a test that is disabled, unknown or without assignment
\* context changes no counter of any test.
C4_TrackingNoOp ==
  [][ \A i \in Tabs, t \in Names :
        ((TrackImpression(i, t) \/ TrackConversion(i, t)) /\ NoContext(i, t))
          => testMetrics' = testMetrics ]_vars

\* Tracking calls were made on a test whose variant came from the item (no
\* metrics record), while a disabled test has a stale assignment in the map.
C4_Witness ==
  /\ Ready("tab1")
  /\ \E t \in TestName : ~enabled[t] /\ Has(assignedVariants["tab1"], t) /\ ~HasMetrics("tab1", t)
  /\ \E u \in TestName :
       /\ enabled[u] /\ ~HasMetrics("tab1", u)
       /\ tracked["tab1"][u].impressions > 0 /\ tracked["tab1"][u].conversions > 0

Max(a, b) == IF a >= b THEN a ELSE b

\* C5 as stated: conversionRate = conversions / max(impressions, 1) * 100 in
\* every counter state.
C5_AsStated ==
  \A i \in Tabs, t \in TestName :
    HasMetrics(i, t) =>
      LET m == testMetrics[i][t] IN
      m.conversionRate.num * Max(m.impressions, 1) = m.conversions * 100 * m.conversionRate.den

\* C6 as stated: for an enabled test with an assigned variant, after m
\* trackImpression and n trackConversion calls getMetrics reports that variant
\* with impressions = m and conversions = n.
C6_AsStated ==
  \A i \in Tabs, t \in TestName :
    (Ready(i) /\ enabled[t] /\ Has(assignedVariants[i], t) /\ tracked[i][t].impressions > 0) =>
      /\ HasMetrics(i, t)
      /\ testMetrics[i][t].variant = assignedVariants[i][t]
      /\ testMetrics[i][t].impressions = tracked[i][t].impressions
      /\ testMetrics[i][t].conversions = tracked[i][t].conversions

\* C7 as stated: whenever getVariant returns a variant, the item maps the test to it.
C7_AsStated ==
  \A i \in Tabs, t \in Names :
    (Ready(i) /\ getVariant(i, t) # NULL) => Get(store, t) = getVariant(i, t)

\* C11 as stated: the impressions and conversions recorded for a test and variant
\* before the tab was restarted are reported by getMetrics after the service is
\* constructed again, and the tracking calls made since are added to them.
C11_AsStated ==
  \A i \in Tabs, t \in TestName :
    (Ready(i) /\ enabled[t] /\ Has(lastMetrics[i], t)
       /\ Get(assignedVariants[i], t) = lastMetrics[i][t].variant) =>
      /\ HasMetrics(i, t)
      /\ testMetrics[i][t].impressions = lastMetrics[i][t].impressions + tracked[i][t].impressions
      /\ testMetrics[i][t].conversions = lastMetrics[i][t].conversions + tracked[i][t].conversions

\* The tabs whose variant of test t is v: the callers that act on (t, v).
Callers(t, v) == {i \in Tabs : Get(assignedVariants[i], t) = v}

\* The calls of one kind the tabs of S made on test t.
RECURSIVE CallsBy(_, _, _)
CallsBy(S, t, kind) ==
  IF S = {} THEN 0
  ELSE LET i == CHOOSE x \in S : TRUE IN tracked[i][t][kind] + CallsBy(S \ {i}, t, kind)

\* C12 as stated: after k trackImpression and j trackConversion calls, in any
\* interleaving, by the callers acting on one enabled test and variant, the one
\* counter pair of that test and variant, which getMetrics reports to each of
\* them, holds impressions = k and conversions = j.
C12_AsStated ==
  \A i \in Tabs, t \in TestName :
    (Ready(i) /\ enabled[t] /\ Has(assignedVariants[i], t)) =>
      LET v == assignedVariants[i][t]
          k == CallsBy(Callers(t, v), t, "impressions")
          j == CallsBy(Callers(t, v), t, "conversions") IN
      (k + j > 0) =>
        /\ HasMetrics(i, t)
        /\ testMetrics[i][t].impressions = k
        /\ testMetrics[i][t].conversions = j

C16_MetricsOnlyWhenEnabled ==
  \A i \in Tabs, t \in Names :
    HasMetrics(i, t) => (t \in TestName /\ enabled[t])

\* A constructed tab that loaded the assignment of a disabled test, reports no
\* record for it and reports one for an enabled test.
C16_Witness ==
  \E i \in Tabs, t \in TestName, u \in TestName :
    /\ Ready(i) /\ ~enabled[t] /\ Has(assignedVariants[i], t) /\ ~HasMetrics(i, t)
    /\ enabled[u] /\ HasMetrics(i, u)

\* The entry of a disabled test stays in the item, unchanged, in every step of a
\* construction.
StaleKept ==
  \A t \in TestName :
    (~enabled[t] /\ ~enabled'[t] /\ Has(store, t)) => (Has(store', t) /\ store'[t] = store[t])

VariantNames == <<"V1", "V2", "V3", "V4", "V5", "V6">>

RECURSIVE SumTo(_, _)
SumTo(w, i) == IF i = 0 THEN 0 ELSE w[i] + SumTo(w, i - 1)

\* Non-negative weights in units of 1 / WeightScale, summing to at most 1.
Distributions(n) == {w \in [1 .. n -> 0 .. WeightScale] : SumTo(w, n) <= WeightScale}

\* Test definitions with 1 .. MaxVariants variants, with and without weights.
PickTests ==
  UNION {
    {[name |-> "pick", enabled |-> TRUE, variants |-> SubSeq(VariantNames, 1, n),
      hasDistribution |-> FALSE, distribution |-> <<>>]}
    \cup
    {[name |-> "pick", enabled |-> TRUE, variants |-> SubSeq(VariantNames, 1, n),
      hasDistribution |-> TRUE, distribution |-> w] : w \in Distributions(n)}
    : n \in 1 .. MaxVariants }

InitPick ==
  /\ InitService
  /\ pickTest \in PickTests
  /\ pickRandom \in Randoms
  /\ pickVariant = ""
  /\ InitLog
  /\ InitRankIdle
  /\ InitBlendIdle
  /\ InitMoreIdle

\* Lines 127-152 for one test and one value of Math.random().
PickAssign ==
  /\ pickVariant = ""
  /\ pickVariant' = AssignVariant(pickTest, pickRandom)
  /\ UNCHANGED <<svcVars, pickTest, pickRandom, logVars, scoreVars, moreVars>>

NextPick == PickAssign

SpecPick == InitPick /\ [][NextPick]_vars

\* Index (1-based) of the assigned variant; variant names are distinct.
PickedIndex == CHOOSE k \in 1 .. Len(pickTest.variants) : pickTest.variants[k] = pickVariant

\* Cumulative weight of the first k variants, on the grid of the draw.
Cum(k) == SumTo(pickTest.distribution, k) * GridRefine

\* Positions whose cumulative weight is >= r.
Reached == {k \in 1 .. Len(pickTest.variants) : pickRandom <= Cum(k)}

Least(S) == CHOOSE k \in S : \A m \in S : k <= m

WeightedDone == pickVariant # "" /\ pickTest.hasDistribution

SumsToOne == SumTo(pickTest.distribution, Len(pickTest.distribution)) = WeightScale

\* C9 as stated: first variant whose cumulative weight is >= r, the last one when
\* none is; with weights summing to 1, variant k exactly for r in (cum[k-1], cum[k]].
C9_AsStated ==
  WeightedDone =>
    /\ PickedIndex = (IF Reached # {} THEN Least(Reached) ELSE Len(pickTest.variants))
    /\ SumsToOne =>
         \A k \in 1 .. Len(pickTest.variants) :
           (PickedIndex = k) <=> (Cum(k - 1) < pickRandom /\ pickRandom <= Cum(k))

\* C9, amended: the weighted assignment picks the first variant (in configured
\* order) whose cumulative weight is >= r and the last variant when none is; with
\* weights summing to 1 the first variant is chosen exactly for r in [0, cum[1]]
\* (r = 0 included), every later variant k exactly for r in (cum[k-1], cum[k]],
\* and the fallback is not needed.
C9_WeightedAssignment ==
  WeightedDone =>
    /\ PickedIndex = (IF Reached # {} THEN Least(Reached) ELSE Len(pickTest.variants))
    /\ SumsToOne =>
         /\ Reached # {}
         /\ \A k \in 1 .. Len(pickTest.variants) :
              (PickedIndex = k) <=>
                IF k = 1 THEN pickRandom <= Cum(1)
                ELSE Cum(k - 1) < pickRandom /\ pickRandom <= Cum(k)

\* A weighted draw, with weights summing to 1, at the upper end of the range of
\* the second of three variants.
C9_Witness ==
  /\ WeightedDone
  /\ SumsToOne
  /\ Len(pickTest.variants) = 3
  /\ PickedIndex = 2
  /\ pickRandom = Cum(2)
  /\ Cum(1) > 0

\* C13 as stated: a test whose distribution does not sum to 1 is rejected when
\* the configuration is loaded, and no variant is assigned for it.
C13_AsStated ==
  (pickTest.hasDistribution /\ ~SumsToOne) => pickVariant = ""

\* C10: without a distribution the assigned variant is the one at index
\* floor(r * n), the index is within 0 .. n-1, and variant k (0-based) is assigned
\* exactly for r in [k/n, (k+1)/n): ranges of equal width 1/n.
C10_UniformAssignment ==
  (pickVariant # "" /\ ~pickTest.hasDistribution) =>
    LET n == Len(pickTest.variants) IN
    /\ RandomIndex(pickTest, pickRandom) \in 0 .. (n - 1)
    /\ \A k \in 0 .. (n - 1) :
         (pickVariant = pickTest.variants[k + 1]) <=>
           (k * RandomGrid <= pickRandom * n /\ pickRandom * n < (k + 1) * RandomGrid)

\* A uniform draw over three variants that lands on the last one.
C10_Witness ==
  /\ pickVariant # ""
  /\ ~pickTest.hasDistribution
  /\ Len(pickTest.variants) = 3
  /\ pickVariant = pickTest.variants[3]
  /\ pickRandom = RandomGrid - 1

\* ------------------------------------------------------------ interaction logging
\* (frontend/src/services/api.ts, frontend/src/services/interactions.ts)
MaxContents == 2

LogUsers == {"user1", "user2"}
Contents == 1 .. MaxContents
InteractionType == {"view", "save", "click", "share"}

\* apiClient.post resolves with a response, rejects with an HTTP error status or
\* rejects without a response.
BackendOutcomes == {"success", "http_error", "network_error"}

Resolved(v) == [state |-> "resolved", value |-> v]
Rejected(v) == [state |-> "rejected", value |-> v]

\* api.logInteraction with a catch that throws the error again, as the other
\* methods of api do.
apiLogInteractionRethrow(outcome) ==
  IF outcome = "success" THEN Resolved("data") ELSE Rejected(outcome)

\* The promise of api.logInteraction: the response data, or undefined after the
\* catch logged the error.
apiLogInteraction(outcome) ==
  IF outcome = "success" THEN Resolved("data") ELSE Resolved("undefined")

\* savedItems[userId].includes(contentId)
Includes(items, userId, contentId) ==
  Has(items, userId) /\ \E k \in 1 .. Len(items[userId]) : items[userId][k] = contentId

\* The item after saveItem(userId, contentId); storage that throws leaves it as
\* it is, the error is caught.
saveItem(items, userId, contentId, storageOk) ==
  IF ~storageOk \/ Includes(items, userId, contentId) THEN items
  ELSE MapSet(items, userId, Append(IF Has(items, userId) THEN items[userId] ELSE <<>>, contentId))

\* The promise of interactionService.logInteraction, given how the awaited
\* api.logInteraction settled.
serviceLogInteraction(settled) ==
  IF settled.state = "rejected" THEN Resolved("false") ELSE Resolved("true")

\* interactionService.logInteraction is called and calls api.logInteraction,
\* which posts.
LogInteraction(userId, contentId, type) ==
  /\ logPc = "idle"
  /\ logPc' = "posting"
  /\ logCall' = [userId |-> userId, contentId |-> contentId, type |-> type]
  /\ logOutcome' = "none"
  /\ apiSettled' = Pending
  /\ svcSettled' = Pending
  /\ UNCHANGED <<savedItems, svcVars, pickVars, scoreVars, moreVars>>

\* The request comes to an end and api.logInteraction settles.
ApiLogInteraction ==
  /\ logPc = "posting"
  /\ \E outcome \in BackendOutcomes :
       /\ logOutcome' = outcome
       /\ apiSettled' = apiLogInteraction(outcome)
  /\ logPc' = "posted"
  /\ UNCHANGED <<logCall, svcSettled, savedItems, svcVars, pickVars, scoreVars, moreVars>>

\* The rest of interactionService.logInteraction after the await.
ServiceLogInteraction ==
  /\ logPc = "posted"
  /\ svcSettled' = serviceLogInteraction(apiSettled)
  /\ \E storageOk \in BOOLEAN :
       savedItems' = IF apiSettled.state = "resolved" /\ logCall.type = "save"
                     THEN saveItem(savedItems, logCall.userId, logCall.contentId, storageOk)
                     ELSE savedItems
  /\ logPc' = "done"
  /\ UNCHANGED <<logCall, logOutcome, apiSettled, svcVars, pickVars, scoreVars, moreVars>>

\* The caller goes on.
LogReturn ==
  /\ logPc = "done"
  /\ logPc' = "idle"
  /\ UNCHANGED <<logCall, logOutcome, apiSettled, svcSettled, savedItems, svcVars, pickVars, scoreVars, moreVars>>

NextLog ==
  \/ \E u \in LogUsers, c \in Contents, type \in InteractionType : LogInteraction(u, c, type)
  \/ ApiLogInteraction
  \/ ServiceLogInteraction
  \/ LogReturn

SpecLog == Init /\ [][NextLog]_vars

\* C15: whatever the backend request comes to (success, HTTP error, network
\* failure), api.logInteraction and interactionService.logInteraction settle
\* resolved, never rejected.
C15_LoggingNeverFails ==
  /\ logPc \in {"posted", "done"} => apiSettled.state = "resolved"
  /\ logPc = "done" => svcSettled.state = "resolved"

\* A save interaction whose request failed without a response has completed.
C15_Witness ==
  /\ logPc = "done"
  /\ logOutcome = "network_error"
  /\ logCall.type = "save"
  /\ apiSettled = Resolved("undefined")
  /\ svcSettled.state = "resolved"

\* ------------------------------------------------------------ scoring, blending, ranking
\* The recommendation engine runs in the backend; the frontend holds its weights
\* (the visualizer's algorithmWeights, in percent) and calls it through api.ts.
\* Scorers, blend and rank follow sections 4.1 to 4.3 of the specification.
\* Sub-scores lie on a grid 0 .. ScoreGrid of [0, 1]; a blended score is in
\* units of 1 / (WeightTotal * ScoreGrid).
ScoreGrid == 2
MaxCandidates == 2
MaxPrefs == 2

WeightTotal == 100
Scorers == <<"collaborative", "content", "location", "temporal">>
AlgorithmWeights == <<35, 30, 25, 10>>

Neighborhoods == {"Kensington Market", "Downtown Core", "Distillery District"}

Min(a, b) == IF a <= b THEN a ELSE b

\* blend without the clipping.
blendUnclipped(weights, subs) == SumTo([k \in 1 .. Len(weights) |-> weights[k] * subs[k]], Len(weights))

\* The linear combination of the sub-scores, clipped to the range of the inputs.
blend(weights, subs) ==
  LET sum == SumTo([k \in 1 .. Len(weights) |-> weights[k] * subs[k]], Len(weights)) IN
  Max(0, Min(WeightTotal * ScoreGrid, sum))

\* The location scorer with the boosts of the primary and the other preferred
\* neighborhoods exchanged.
locationScoreSwapped(prefs, neighborhood) ==
  IF \A k \in 1 .. Len(prefs) : prefs[k] # neighborhood THEN 0
  ELSE IF prefs[1] = neighborhood THEN ScoreGrid \div 2
  ELSE ScoreGrid

\* Location-affinity scorer: the strongest boost for the primary neighborhood, a
\* smaller one for any other preferred neighborhood, the neutral score otherwise.
locationScore(prefs, neighborhood) ==
  IF \A k \in 1 .. Len(prefs) : prefs[k] # neighborhood THEN 0
  ELSE IF prefs[1] = neighborhood THEN ScoreGrid
  ELSE ScoreGrid \div 2

\* What each scorer returns for a candidate.  The candidates of a call differ in
\* neighborhood, recency and collaborative score; content and temporal scorers
\* find nothing to tell them apart by.
rawScore(user, cand, scorer) ==
  CASE scorer = "collaborative" -> cand.collaborative
    [] scorer = "location" -> locationScore(user, cand.neighborhood)
    [] OTHER -> 0

\* A scorer's error counted against every candidate.
subScoreShared(user, cands, failure, id, scorer) ==
  IF failure.scorer = scorer THEN 0 ELSE rawScore(user, cands[id], scorer)

\* The sub-score of a candidate: 0 when the scorer errors for it.
subScore(user, cands, failure, id, scorer) ==
  IF failure.id = id /\ failure.scorer = scorer THEN 0 ELSE rawScore(user, cands[id], scorer)

\* ScoredCandidate: the sub-scores by scorer and the blended score.
scoreCandidate(user, cands, failure, id) ==
  LET subs == [k \in 1 .. Len(Scorers) |-> subScore(user, cands, failure, id, Scorers[k])] IN
  [subs |-> subs, blended |-> blend(AlgorithmWeights, subs)]

\* The order of the result without the identifier as the last key.
beforeNoId(scored, cands, a, b) ==
  \/ scored[a].blended > scored[b].blended
  \/ /\ scored[a].blended = scored[b].blended
     /\ cands[a].recency > cands[b].recency

\* The order of the result: blended score descending, then more recent first,
\* then by identifier.
before(scored, cands, a, b) ==
  \/ scored[a].blended > scored[b].blended
  \/ /\ scored[a].blended = scored[b].blended
     /\ cands[a].recency > cands[b].recency
  \/ /\ scored[a].blended = scored[b].blended
     /\ cands[a].recency = cands[b].recency
     /\ a < b

\* One candidate put in its place in a sorted sequence.
insert(scored, cands, c, sorted) ==
  LET ahead == {k \in 1 .. Len(sorted) : before(scored, cands, c, sorted[k])}
      at == IF ahead = {} THEN Len(sorted) + 1 ELSE Least(ahead) IN
  SubSeq(sorted, 1, at - 1) \o <<c>> \o SubSeq(sorted, at, Len(sorted))

RECURSIVE sortFirst(_, _, _, _)
sortFirst(scored, cands, arrival, n) ==
  IF n = 0 THEN <<>>
  ELSE insert(scored, cands, arrival[n], sortFirst(scored, cands, arrival, n - 1))

\* rank: score, sort, truncate to count.
rank(scored, cands, arrival, count) ==
  LET sorted == sortFirst(scored, cands, arrival, Len(arrival)) IN
  SubSeq(sorted, 1, Min(count, Len(sorted)))

\* The orders the candidates of a set can be joined in.
Arrivals(ids) ==
  {a \in [1 .. Cardinality(ids) -> ids] : \A p, q \in 1 .. Cardinality(ids) : a[p] = a[q] => p = q}

\* A call of rank, first step: the scorers run on every candidate, one of them
\* may error for one candidate, and each candidate's sub-scores are blended.
Score ==
  /\ rankCands # <<>>
  /\ rankScored = <<>>
  /\ rankScored' = [id \in DOMAIN rankCands |->
                      scoreCandidate(rankUser, rankCands, rankFailure, id)]
  /\ UNCHANGED <<rankUser, rankCands, rankFailure, rankCount, rankArrival, rankResult, rankFirst,
                 blendVars, svcVars, pickVars, logVars, moreVars>>

\* Terminal step, of this call and of every repeated one: the scored candidates
\* are joined in some order, sorted and truncated.
Rank ==
  /\ rankScored # <<>>
  /\ \E arrival \in Arrivals(DOMAIN rankCands) :
       /\ rankArrival' = arrival
       /\ rankResult' = rank(rankScored, rankCands, arrival, rankCount)
  /\ rankFirst' = IF rankFirst.set THEN rankFirst ELSE [set |-> TRUE, result |-> rankResult']
  /\ UNCHANGED <<rankUser, rankCands, rankFailure, rankCount, rankScored, blendVars, svcVars,
                 pickVars, logVars, moreVars>>

NextRank == Score \/ Rank

\* Candidates that differ in neighborhood, recency and collaborative score.
Candidate(neighborhoods, recencies, collaboratives) ==
  [neighborhood : neighborhoods, recency : recencies, collaborative : collaboratives]

Failures(ids) == {NoFailure} \cup [id : ids, scorer : {Scorers[k] : k \in 1 .. Len(Scorers)}]

\* The user of the end-to-end scenario and every set of candidates.
InitRank ==
  /\ InitService /\ InitPickIdle /\ InitLog /\ InitBlendIdle /\ InitMoreIdle
  /\ rankUser = <<"Kensington Market", "Downtown Core">>
  /\ rankCands \in [1 .. MaxCandidates ->
                       Candidate({"Kensington Market", NULL}, 0 .. 1, {0, ScoreGrid})]
  /\ rankFailure \in Failures(1 .. MaxCandidates)
  /\ rankCount \in 0 .. MaxCandidates
  /\ rankArrival = <<>>
  /\ rankScored = <<>>
  /\ rankResult = <<>>
  /\ rankFirst = NoResult

SpecRank == InitRank /\ [][NextRank]_vars

\* Ordered lists of distinct preferred neighborhoods, up to MaxPrefs.
PrefLists ==
  UNION {{p \in [1 .. n -> Neighborhoods] : \A a, b \in 1 .. n : p[a] = p[b] => a = b}
         : n \in 0 .. MaxPrefs}

\* Every user and candidates that differ in their neighborhood only.
InitLocation ==
  /\ InitService /\ InitPickIdle /\ InitLog /\ InitBlendIdle /\ InitMoreIdle
  /\ rankUser \in PrefLists
  /\ rankCands \in [1 .. MaxCandidates -> Candidate(Neighborhoods \cup {NULL}, {0}, {0})]
  /\ rankFailure = NoFailure
  /\ rankCount = MaxCandidates
  /\ rankArrival = <<>>
  /\ rankScored = <<>>
  /\ rankResult = <<>>
  /\ rankFirst = NoResult

SpecLocation == InitLocation /\ [][NextRank]_vars

\* Weight sets summing to 1, and sub-scores of the whole range.
WeightValues == {-50, 0, 10, 25, 30, 35, 50, 100, 150}
WeightSets == {w \in [1 .. Len(Scorers) -> WeightValues] : SumTo(w, Len(Scorers)) = WeightTotal}

InitBlend ==
  /\ InitService /\ InitPickIdle /\ InitLog /\ InitRankIdle /\ InitMoreIdle
  /\ blendWeights \in WeightSets
  /\ blendSubs \in [1 .. Len(Scorers) -> 0 .. ScoreGrid]
  /\ blendOut = NotBlended

Blend ==
  /\ blendOut = NotBlended
  /\ blendOut' = blend(blendWeights, blendSubs)
  /\ UNCHANGED <<blendWeights, blendSubs, rankVars, svcVars, pickVars, logVars, moreVars>>

NextBlend == Blend

SpecBlend == InitBlend /\ [][NextBlend]_vars

\* ------------------------------------------------------------ properties of the ranking
Ranked == rankFirst.set

CandidateIds == DOMAIN rankCands

ScorerIndex(scorer) == CHOOSE k \in 1 .. Len(Scorers) : Scorers[k] = scorer

\* a comes before b: higher blended score, or the same and more recent, or the
\* same in both and the smaller identifier.
Outranks(a, b) ==
  LET sa == rankScored[a].blended
      sb == rankScored[b].blended
      ra == rankCands[a].recency
      rb == rankCands[b].recency IN
  sa > sb \/ (sa = sb /\ ra > rb) \/ (sa = sb /\ ra = rb /\ a < b)

InResult(id) == \E p \in 1 .. Len(rankResult) : rankResult[p] = id

C18_ScorerFailureIsolated ==
  (Ranked /\ rankFailure # NoFailure) =>
    /\ rankScored[rankFailure.id].subs[ScorerIndex(rankFailure.scorer)] = 0
    /\ \A id \in CandidateIds, k \in 1 .. Len(Scorers) :
         (id # rankFailure.id \/ Scorers[k] # rankFailure.scorer) =>
           rankScored[id].subs[k] = rawScore(rankUser, rankCands[id], Scorers[k])
    /\ Len(rankResult) = Min(rankCount, Cardinality(CandidateIds))
    /\ rankCount = Cardinality(CandidateIds) => \A id \in CandidateIds : InResult(id)

\* The collaborative scorer errors for candidate 1 and not for candidate 2; both
\* would have the full collaborative score.
C18_Witness ==
  /\ Ranked
  /\ rankFailure = [id |-> 1, scorer |-> "collaborative"]
  /\ rankCands[1].collaborative = ScoreGrid /\ rankCands[2].collaborative = ScoreGrid
  /\ rankScored[1].subs[1] = 0 /\ rankScored[2].subs[1] = ScoreGrid
  /\ rankCount = 2 /\ Len(rankResult) = 2

\* C19: the configured weights (0.35, 0.30, 0.25, 0.10) sum to 1, and for every
\* weight set summing to 1 and sub-scores inside the score range the blended
\* score is inside the same range.
C19_BlendWithinRange ==
  /\ SumTo(AlgorithmWeights, Len(AlgorithmWeights)) = WeightTotal
  /\ AlgorithmWeights \in WeightSets
  /\ (blendOut # NotBlended /\ SumTo(blendWeights, Len(blendWeights)) = WeightTotal
        /\ \A k \in 1 .. Len(blendSubs) : blendSubs[k] \in 0 .. ScoreGrid)
       => (0 <= blendOut /\ blendOut <= WeightTotal * ScoreGrid)

\* A weight set with a weight above 1 and a negative one, blended on the highest
\* sub-score: the combination is above the range and the blended score its top.
C19_Witness ==
  /\ blendOut = WeightTotal * ScoreGrid
  /\ blendWeights[1] > WeightTotal
  /\ blendWeights[2] < 0
  /\ blendSubs[1] = ScoreGrid
  /\ blendSubs[2] = 0

\* How the neighborhood of a candidate matches the user's preferred ones.
MatchKind(id) ==
  LET n == rankCands[id].neighborhood IN
  IF n = NULL \/ \A k \in 1 .. Len(rankUser) : rankUser[k] # n THEN "none"
  ELSE IF rankUser[1] = n THEN "primary"
  ELSE "other"

LocationOf(id) == rankScored[id].subs[ScorerIndex("location")]

\* C20: for every user, a candidate in the primary preferred neighborhood scores
\* >= one in another preferred neighborhood, which scores >= one without a
\* match; the location score is never negative.
C20_LocationOrdering ==
  Ranked =>
    \A a \in CandidateIds, b \in CandidateIds :
      /\ (MatchKind(a) = "primary" /\ MatchKind(b) = "other") => LocationOf(a) >= LocationOf(b)
      /\ (MatchKind(a) = "other" /\ MatchKind(b) = "none") => LocationOf(a) >= LocationOf(b)
      /\ (MatchKind(a) = "primary" /\ MatchKind(b) = "none") => LocationOf(a) >= LocationOf(b)
      /\ LocationOf(a) >= 0

\* A candidate in the primary neighborhood and one in the second preferred one.
C20_Witness ==
  /\ Ranked
  /\ Len(rankUser) = 2
  /\ \E a \in CandidateIds, b \in CandidateIds :
       /\ MatchKind(a) = "primary" /\ MatchKind(b) = "other"
       /\ LocationOf(a) > LocationOf(b)

\* ------------------------------------------------------------ concurrent scoring
\* The scorers fan out over the candidates; every invocation delivers its
\* sub-score on its own, in no particular order.

\* The sub-score a scorer delivered for a candidate, 0 while there is none.
delivered(subs, id, k) == IF Has(subs, <<id, k>>) THEN subs[<<id, k>>] ELSE 0

\* A join that lets a candidate through with its first sub-score.
canBlendFirst(subs, id) == \E k \in 1 .. Len(Scorers) : Has(subs, <<id, k>>)

\* The join before the Blender: all four sub-scores of the candidate are there.
canBlend(subs, id) == \A k \in 1 .. Len(Scorers) : Has(subs, <<id, k>>)

\* The join before the sort: every candidate is blended.
canSort(blended, ids) == \A id \in ids : Has(blended, id)

\* One scorer invocation returns, or errors and counts as 0.
ScorerDone(id, k) ==
  /\ ~Has(joinSubs, <<id, k>>)
  /\ joinSubs' = MapSet(joinSubs, <<id, k>>, subScore(rankUser, rankCands, rankFailure, id, Scorers[k]))
  /\ UNCHANGED <<joinBlended, joinResult, pageVars, scoreVars, svcVars, pickVars, logVars>>

\* The Blender takes one joined candidate.
JoinBlend(id) ==
  /\ canBlend(joinSubs, id)
  /\ ~Has(joinBlended, id)
  /\ joinBlended' = MapSet(joinBlended, id,
                           blend(AlgorithmWeights,
                                 [k \in 1 .. Len(Scorers) |-> delivered(joinSubs, id, k)]))
  /\ UNCHANGED <<joinSubs, joinResult, pageVars, scoreVars, svcVars, pickVars, logVars>>

\* The terminal step: the blended candidates, in the order they were joined in,
\* are sorted and truncated.
JoinSort ==
  /\ canSort(joinBlended, DOMAIN rankCands)
  /\ ~joinResult.set
  /\ \E arrival \in Arrivals(DOMAIN joinBlended) :
       joinResult' = [set |-> TRUE,
                      result |-> rank([id \in DOMAIN joinBlended |-> [blended |-> joinBlended[id]]],
                                      rankCands, arrival, rankCount)]
  /\ UNCHANGED <<joinSubs, joinBlended, pageVars, scoreVars, svcVars, pickVars, logVars>>

NextJoin ==
  \/ \E id \in DOMAIN rankCands, k \in 1 .. Len(Scorers) : ScorerDone(id, k)
  \/ \E id \in DOMAIN rankCands : JoinBlend(id)
  \/ JoinSort

\* Candidates of one neighborhood and recency, any scorer failing for any of them.
InitJoin ==
  /\ InitService /\ InitPickIdle /\ InitLog /\ InitBlendIdle /\ InitMoreIdle
  /\ rankUser = <<"Kensington Market", "Downtown Core">>
  /\ rankCands \in [1 .. MaxCandidates -> Candidate({"Kensington Market"}, {0}, {0, ScoreGrid})]
  /\ rankFailure \in Failures(1 .. MaxCandidates)
  /\ rankCount = MaxCandidates
  /\ rankArrival = <<>>
  /\ rankScored = <<>>
  /\ rankResult = <<>>
  /\ rankFirst = NoResult

SpecJoin == InitJoin /\ [][NextJoin]_vars

\* The candidates in the order of their identifiers.
InOrder == [k \in DOMAIN rankCands |-> k]

\* C21: with the scorer invocations returning in any order, a blended candidate
\* has all four of its sub-scores and its blended score is the blend of exactly
\* these, and a result exists only when every candidate is blended, and is the
\* ranking of the fully scored candidates.
C21_JoinBeforeBlendAndSort ==
  /\ \A id \in DOMAIN joinBlended :
       /\ \A k \in 1 .. Len(Scorers) : Has(joinSubs, <<id, k>>)
       /\ joinBlended[id] = scoreCandidate(rankUser, rankCands, rankFailure, id).blended
  /\ joinResult.set =>
       /\ \A id \in DOMAIN rankCands : Has(joinBlended, id)
       /\ joinResult.result =
            rank([id \in DOMAIN rankCands |-> scoreCandidate(rankUser, rankCands, rankFailure, id)],
                 rankCands, InOrder, rankCount)

\* A result of two candidates with a scorer failing for one of them, the second
\* candidate ranked above the first.
C21_Witness ==
  /\ joinResult.set
  /\ Len(joinResult.result) >= 2
  /\ rankFailure # NoFailure
  /\ joinResult.result[1] > joinResult.result[2]

\* ------------------------------------------------------------ HomePage
\* The page of tab1; the service instance is the module-level singleton, built
\* before any component mounts.
HomeTab == "tab1"
HomeTest == "homepage_layout"
NoHomeCalls == [impressions |-> 0, conversions |-> 0]

\* A click handler that tracks whatever the state holds.
alwaysTrackConversion(variant) == TRUE

\* if (abTestVariant) of the click handlers.
shouldTrackConversion(variant) == variant # NULL /\ variant # ""

\* First render: the state is still null, the effect is pending.
HomeRender ==
  /\ pc[HomeTab] = "ready"
  /\ homePc = "unmounted"
  /\ homePc' = "rendered"
  /\ UNCHANGED <<abTestVariant, homeCalls, savedLast, userVars, lookupVars, joinVars,
                 svcVars, pickVars, logVars, scoreVars>>

\* The mount effect: getVariant, setAbTestVariant, and trackImpression if the
\* variant is not null.
HomeEffect ==
  /\ homePc = "rendered"
  /\ LET variant == getVariant(HomeTab, HomeTest)
         tracks == variant # NULL /\ variant # "" IN
     /\ tracks => TotalCalls(HomeTab) < MaxCalls
     /\ abTestVariant' = variant
     /\ testMetrics' = IF tracks
                       THEN [testMetrics EXCEPT ![HomeTab] = trackImpression(HomeTab, HomeTest)]
                       ELSE testMetrics
     /\ tracked' = IF tracks /\ Counts(HomeTest)
                   THEN [tracked EXCEPT ![HomeTab][HomeTest].impressions = @ + 1] ELSE tracked
     /\ homeCalls' = IF tracks THEN [homeCalls EXCEPT !.impressions = @ + 1] ELSE homeCalls
  /\ homePc' = "mounted"
  /\ UNCHANGED <<enabled, store, pc, pos, access, assignedVariants, returned, after, priorVariant,
                 lastMetrics, deploys, savedLast, userVars, lookupVars, joinVars,
                 pickVars, logVars, scoreVars>>

\* A click on one of the category links, before or after the effect has run.
HomeClick ==
  /\ homePc \in {"rendered", "mounted"}
  /\ LET tracks == shouldTrackConversion(abTestVariant) IN
     /\ tracks => homeCalls.impressions + homeCalls.conversions < MaxCalls
     /\ tracks /\ Counts(HomeTest) => TotalCalls(HomeTab) < MaxCalls
     /\ testMetrics' = IF tracks
                       THEN [testMetrics EXCEPT ![HomeTab] = trackConversion(HomeTab, HomeTest)]
                       ELSE testMetrics
     /\ tracked' = IF tracks /\ Counts(HomeTest)
                   THEN [tracked EXCEPT ![HomeTab][HomeTest].conversions = @ + 1] ELSE tracked
     /\ homeCalls' = IF tracks THEN [homeCalls EXCEPT !.conversions = @ + 1] ELSE homeCalls
  /\ UNCHANGED <<enabled, store, pc, pos, access, assignedVariants, returned, after, priorVariant,
                 lastMetrics, deploys, homePc, abTestVariant, savedLast, userVars, lookupVars,
                 joinVars, pickVars, logVars, scoreVars>>

\* The user leaves the page: the component state is gone.
HomeUnmount ==
  /\ homePc # "unmounted"
  /\ homePc' = "unmounted"
  /\ abTestVariant' = NULL
  /\ homeCalls' = NoHomeCalls
  /\ UNCHANGED <<savedLast, userVars, lookupVars, joinVars, svcVars, pickVars, logVars, scoreVars>>

\* The shipped build, and the build with homepage_layout switched on.
InitHome ==
  /\ enabled \in {[t \in TestName |-> FindTest(t).enabled],
                  [t \in TestName |-> t = HomeTest \/ FindTest(t).enabled]}
  /\ store = EmptyMap
  /\ pc = [i \in Tabs |-> "none"]
  /\ pos = [i \in Tabs |-> 1]
  /\ access = [i \in Tabs |-> "ok"]
  /\ assignedVariants = [i \in Tabs |-> EmptyMap]
  /\ testMetrics = [i \in Tabs |-> EmptyMap]
  /\ returned = [t \in TestName |-> NULL]
  /\ after = [i \in Tabs |-> {}]
  /\ priorVariant = [t \in TestName |-> NULL]
  /\ tracked = [i \in Tabs |-> NoCalls]
  /\ lastMetrics = [i \in Tabs |-> EmptyMap]
  /\ deploys = 0
  /\ InitPickIdle /\ InitLog /\ InitRankIdle /\ InitBlendIdle /\ InitMoreIdle

NextHome ==
  \/ loadAssignedVariants(HomeTab)
  \/ assignMissingVariants(HomeTab)
  \/ HomeRender
  \/ HomeEffect
  \/ HomeClick
  \/ HomeUnmount

SpecHome == InitHome /\ [][NextHome]_vars

\* C22: since the page was mounted, a trackConversion(HOMEPAGE_LAYOUT) call has
\* the one trackImpression(HOMEPAGE_LAYOUT) call of the mount effect before it,
\* and neither call is made before the effect has run or when getVariant
\* returned null in it.
C22_ConversionAfterImpression ==
  /\ homeCalls.conversions > 0 => homeCalls.impressions = 1
  /\ homePc = "rendered" => homeCalls = NoHomeCalls
  /\ (homePc = "mounted" /\ abTestVariant = NULL) => homeCalls = NoHomeCalls
  /\ homeCalls.impressions <= 1

\* Conversions tracked after the impression of the mount effect.
C22_Witness ==
  /\ homePc = "mounted"
  /\ abTestVariant = "LocationFirst"
  /\ homeCalls = [impressions |-> 1, conversions |-> 2]
  /\ testMetrics[HomeTab][HomeTest].conversions = 2

\* ------------------------------------------------------------ further properties of the service
\* C23: in every service instance, a test with a metrics record has an assigned
\* variant, and the record names that variant.
C23_MetricsMatchAssignment ==
  \A i \in Tabs : \A t \in DOMAIN testMetrics[i] :
    /\ Has(assignedVariants[i], t)
    /\ testMetrics[i][t].variant = assignedVariants[i][t]

\* A tab that drew B, with counts in the record.
C23_Witness ==
  /\ pc["tab1"] = "ready"
  /\ Has(testMetrics["tab1"], "recommendation_explanation")
  /\ testMetrics["tab1"]["recommendation_explanation"].variant = "B"
  /\ testMetrics["tab1"]["recommendation_explanation"].impressions > 0

\* C24: a tracking call on an enabled test that has a record adds exactly 1 to
\* the counter it is for and leaves the other counter of the record, its
\* variant, every other record, the assignments and the stored item as they
\* were; no step of a living service instance lowers a counter.
C24_TrackingFrame ==
  [][\A i \in Tabs :
       pc'[i] = pc[i] =>
         /\ \A t \in DOMAIN testMetrics[i] :
              /\ Has(testMetrics'[i], t)
              /\ testMetrics'[i][t].impressions >= testMetrics[i][t].impressions
              /\ testMetrics'[i][t].conversions >= testMetrics[i][t].conversions
         /\ \A t \in TestName :
              (tracked'[i][t] # tracked[i][t] /\ Has(testMetrics[i], t)) =>
                LET di == tracked'[i][t].impressions - tracked[i][t].impressions
                    dc == tracked'[i][t].conversions - tracked[i][t].conversions IN
                /\ di + dc = 1 /\ di >= 0 /\ dc >= 0
                /\ testMetrics'[i][t].impressions = testMetrics[i][t].impressions + di
                /\ testMetrics'[i][t].conversions = testMetrics[i][t].conversions + dc
                /\ testMetrics'[i][t].variant = testMetrics[i][t].variant
                /\ DOMAIN testMetrics'[i] = DOMAIN testMetrics[i]
                /\ \A u \in DOMAIN testMetrics[i] \ {t} : testMetrics'[i][u] = testMetrics[i][u]
                /\ \A j \in Tabs \ {i} : testMetrics'[j] = testMetrics[j]
                /\ assignedVariants' = assignedVariants
                /\ store' = store]_vars

\* Both kinds of call counted, a conversion one beyond the impressions.
C24_Witness ==
  /\ pc["tab1"] = "ready"
  /\ Has(testMetrics["tab1"], "recommendation_explanation")
  /\ testMetrics["tab1"]["recommendation_explanation"].impressions = 1
  /\ testMetrics["tab1"]["recommendation_explanation"].conversions = 2
  /\ store # EmptyMap

\* C26: a constructed service holds a variant for every enabled test; a disabled
\* test has no metrics record, and an assignment of a disabled test enters a
\* service only as a copy of the entry the stored item holds for it.
C26_NothingCreatedForDisabled ==
  /\ [](\A i \in Tabs : \A t \in TestName :
          /\ (Ready(i) /\ enabled[t]) => Has(assignedVariants[i], t)
          /\ ~enabled[t] => ~Has(testMetrics[i], t))
  /\ [][\A i \in Tabs : \A t \in TestName :
          (~enabled'[t] /\ Has(assignedVariants'[i], t) /\ ~Has(assignedVariants[i], t)) =>
            (Has(store, t) /\ assignedVariants'[i][t] = store[t])]_vars

\* A service that loaded the variant of a test disabled since, in a build that
\* enabled the other test.
C26_Witness ==
  /\ Ready("tab1")
  /\ ~enabled["recommendation_explanation"]
  /\ Has(assignedVariants["tab1"], "recommendation_explanation")
  /\ enabled["homepage_layout"]
  /\ Has(assignedVariants["tab1"], "homepage_layout")

\* C27: a service whose read of the item threw (storage denied, item not
\* parsable) or whose write threw is constructed all the same, and getVariant
\* returns a configured variant for every enabled test.
C27_ConstructedDespiteStorageFailure ==
  \A i \in Tabs :
    (Ready(i) /\ access[i] # "ok") =>
      \A t \in TestName :
        enabled[t] => (Has(assignedVariants[i], t) /\ getVariant(i, t) \in VariantsOf(t))

\* A service constructed with every storage access throwing: B in memory,
\* nothing stored.
C27_Witness ==
  /\ Ready("tab1")
  /\ access["tab1"] = "denied"
  /\ getVariant("tab1", "recommendation_explanation") = "B"
  /\ store = EmptyMap

\* ------------------------------------------------------------ an item written by an older build
\* A variant name of an older variant list, no longer configured for any test.
LegacyVariant == "Control"

\* What the item may hold when the build is first loaded: nothing, or for some of
\* the tests a variant of the current or of the older list.
StoredItems ==
  {m \in UNION {[S -> UNION {VariantsOf(t) : t \in TestName} \cup {LegacyVariant}]
                 : S \in SUBSET TestName} :
     \A t \in DOMAIN m : m[t] \in VariantsOf(t) \cup {LegacyVariant}}

InitLegacy ==
  /\ enabled = [t \in TestName |-> FindTest(t).enabled]
  /\ store \in StoredItems
  /\ pc = [i \in Tabs |-> "none"]
  /\ pos = [i \in Tabs |-> 1]
  /\ access = [i \in Tabs |-> "ok"]
  /\ assignedVariants = [i \in Tabs |-> EmptyMap]
  /\ testMetrics = [i \in Tabs |-> EmptyMap]
  /\ returned = [t \in TestName |-> NULL]
  /\ after = [i \in Tabs |-> {}]
  /\ priorVariant = [t \in TestName |-> NULL]
  /\ tracked = [i \in Tabs |-> NoCalls]
  /\ lastMetrics = [i \in Tabs |-> EmptyMap]
  /\ deploys = 0
  /\ InitPickIdle /\ InitLog /\ InitRankIdle /\ InitBlendIdle /\ InitMoreIdle

NextLegacy ==
  \/ Lifecycle({"tab1"})
  \/ \E t \in Names : GetVariant("tab1", t)

SpecLegacy == InitLegacy /\ [][NextLegacy]_vars

\* C25 as stated: whatever the item held when the service loaded it, a non-null
\* result of getVariant is one of the variants configured for the test.
C25_AsStated ==
  \A i \in Tabs : \A t \in TestName :
    (Ready(i) /\ getVariant(i, t) # NULL) => getVariant(i, t) \in VariantsOf(t)

\* ------------------------------------------------------------ saved items
\* savedItems[userId].filter(id => id !== contentId)
RECURSIVE without(_, _)
without(list, contentId) ==
  IF list = <<>> THEN <<>>
  ELSE IF list[1] = contentId THEN without(Tail(list), contentId)
  ELSE <<list[1]>> \o without(Tail(list), contentId)

\* The item after unsaveItem(userId, contentId); storage that throws leaves it
\* as it is, the error is caught.
unsaveItem(items, userId, contentId, storageOk) ==
  IF ~storageOk \/ ~Has(items, userId) THEN items
  ELSE MapSet(items, userId, without(items[userId], contentId))

\* savedItems[userId]?.includes(contentId) || false
isItemSaved(items, userId, contentId) == Includes(items, userId, contentId)

\* savedItems[userId] || []
getSavedItems(items, userId) == IF Has(items, userId) THEN items[userId] ELSE <<>>

\* A call of saveItem; any of its storage accesses may throw.
SaveItem(userId, contentId) ==
  /\ \E storageOk \in BOOLEAN :
       /\ savedItems' = saveItem(savedItems, userId, contentId, storageOk)
       /\ savedLast' = [op |-> "saveItem", userId |-> userId, contentId |-> contentId,
                        result |-> isItemSaved(savedItems', userId, contentId),
                        before |-> savedItems, storageOk |-> storageOk]
  /\ UNCHANGED <<logPc, logCall, logOutcome, apiSettled, svcSettled, homeVars, userVars,
                 lookupVars, joinVars, svcVars, pickVars, scoreVars>>

\* A call of unsaveItem; any of its storage accesses may throw.
UnsaveItem(userId, contentId) ==
  /\ \E storageOk \in BOOLEAN :
       /\ savedItems' = unsaveItem(savedItems, userId, contentId, storageOk)
       /\ savedLast' = [op |-> "unsaveItem", userId |-> userId, contentId |-> contentId,
                        result |-> isItemSaved(savedItems', userId, contentId),
                        before |-> savedItems, storageOk |-> storageOk]
  /\ UNCHANGED <<logPc, logCall, logOutcome, apiSettled, svcSettled, homeVars, userVars,
                 lookupVars, joinVars, svcVars, pickVars, scoreVars>>

NextSaved ==
  \/ \E u \in LogUsers, c \in Contents : SaveItem(u, c)
  \/ \E u \in LogUsers, c \in Contents : UnsaveItem(u, c)

SpecSaved == Init /\ [][NextSaved]_vars

\* No content id twice in any user's list.
NoDuplicates ==
  \A u \in DOMAIN savedItems : \A a, b \in 1 .. Len(savedItems[u]) :
    savedItems[u][a] = savedItems[u][b] => a = b

\* isItemSaved agrees with getSavedItems.
SavedAgrees ==
  \A u \in LogUsers, c \in Contents :
    isItemSaved(savedItems, u, c) <=>
      \E k \in 1 .. Len(getSavedItems(savedItems, u)) : getSavedItems(savedItems, u)[k] = c

\* The last call left the lists of the other users as they were.
OthersUnchanged ==
  savedLast.op # "none" =>
    \A u \in LogUsers \ {savedLast.userId} :
      getSavedItems(savedItems, u) = getSavedItems(savedLast.before, u)

\* C28 as stated: no duplicates, isItemSaved agrees with getSavedItems, a call
\* leaves other users' lists alone, and isItemSaved(u, c) is true after
\* saveItem(u, c) and false after unsaveItem(u, c).
C28_AsStated ==
  /\ NoDuplicates
  /\ SavedAgrees
  /\ OthersUnchanged
  /\ savedLast.op = "saveItem" => savedLast.result
  /\ savedLast.op = "unsaveItem" => ~savedLast.result

\* ------------------------------------------------------------ UserProvider
\* The two mock users, without the fields no operation reads or writes.
MOCK_USERS ==
  << [id |-> "7645592a-9838-4798-877d-2daff815de76",
      interests |-> <<"food", "outdoor", "photography", "events">>,
      neighborhoodPreferences |-> <<"Downtown Core", "Distillery District", "Kensington Market">>],
     [id |-> "38ea0e87-907a-4743-9791-1ca76e79c8ce",
      interests |-> <<"photography", "art", "architecture">>,
      neighborhoodPreferences |-> <<"Queen West", "Distillery District">>] >>

MockIds == {MOCK_USERS[k].id : k \in 1 .. Len(MOCK_USERS)}
UnknownUserId == "unknown-user"
UserIds == MockIds \cup {UnknownUserId}

\* MOCK_USERS.find(user => user.id === userId)
FindUser(userId) == MOCK_USERS[CHOOSE k \in 1 .. Len(MOCK_USERS) : MOCK_USERS[k].id = userId]

\* The message of the error a failed localStorage write throws.
StorageError == "QuotaExceededError"

\* The arguments updatePreferences is called with.
InterestLists == {<<"food">>, <<"art", "food">>}
NeighborhoodLists == {<<>>, <<"Queen West">>}

\* The provider state and the item, as one record.
UserState == [currentUser |-> currentUser, isLoading |-> isLoading, userError |-> userError,
              userRecord |-> userRecord]

\* login, statement by statement; setItem throws when storageOk is false.
login(s, userId, storageOk) ==
  LET s1 == [s EXCEPT !.isLoading = TRUE, !.userError = NULL]
      s2 == IF userId \in MockIds
            THEN LET s3 == [s1 EXCEPT !.currentUser = FindUser(userId)] IN
                 IF storageOk THEN [s3 EXCEPT !.userRecord = FindUser(userId)]
                 ELSE [s3 EXCEPT !.userError = StorageError]
            ELSE [s1 EXCEPT !.userError = "User not found"] IN
  [s2 EXCEPT !.isLoading = FALSE]

\* logout; removeItem that throws ends it with the state already set.
logout(s, storageOk) ==
  LET s1 == [s EXCEPT !.currentUser = NoUser] IN
  IF storageOk THEN [s1 EXCEPT !.userRecord = NoUser] ELSE s1

\* updatePreferences, statement by statement.
updatePreferences(s, interests, neighborhoods, storageOk) ==
  IF s.currentUser = NoUser THEN s
  ELSE LET s1 == [s EXCEPT !.isLoading = TRUE, !.userError = NULL]
           updatedUser == [s.currentUser EXCEPT !.interests = interests,
                                                !.neighborhoodPreferences = neighborhoods]
           s2 == [s1 EXCEPT !.currentUser = updatedUser]
           s3 == IF storageOk THEN [s2 EXCEPT !.userRecord = updatedUser]
                 ELSE [s2 EXCEPT !.userError = StorageError] IN
       [s3 EXCEPT !.isLoading = FALSE]

\* The provider takes the state an operation ends in.
SetUserState(s, op, userId, storageOk) ==
  /\ currentUser' = s.currentUser
  /\ isLoading' = s.isLoading
  /\ userError' = s.userError
  /\ userRecord' = s.userRecord
  /\ userLast' = [op |-> op, userId |-> userId, currentUser |-> currentUser,
                  userRecord |-> userRecord, userError |-> userError, isLoading |-> isLoading,
                  storageOk |-> storageOk]
  /\ UNCHANGED <<homeVars, savedLast, lookupVars, joinVars, svcVars, pickVars, logVars, scoreVars>>

Login(userId) ==
  \E storageOk \in BOOLEAN :
    /\ userId \notin MockIds => storageOk
    /\ SetUserState(login(UserState, userId, storageOk), "login", userId, storageOk)

Logout ==
  \E storageOk \in BOOLEAN : SetUserState(logout(UserState, storageOk), "logout", "none", storageOk)

UpdatePreferences(interests, neighborhoods) ==
  \E storageOk \in BOOLEAN :
    /\ currentUser = NoUser => storageOk
    /\ SetUserState(updatePreferences(UserState, interests, neighborhoods, storageOk),
                    "updatePreferences", "none", storageOk)

\* The page is loaded again: initial state, then the mount effect reads the item.
UserMount ==
  SetUserState([currentUser |-> userRecord, isLoading |-> FALSE, userError |-> NULL,
                userRecord |-> userRecord], "mount", "none", TRUE)

NextUser ==
  \/ \E userId \in UserIds : Login(userId)
  \/ Logout
  \/ \E interests \in InterestLists, neighborhoods \in NeighborhoodLists :
       UpdatePreferences(interests, neighborhoods)
  \/ UserMount

SpecUser == Init /\ [][NextUser]_vars

\* C29 as stated: a login with an unknown id sets the error and leaves the user
\* and the item as they were; after every login, logout and updatePreferences
\* isLoading is false and the item holds the user in memory (no item when
\* logged out); updatePreferences without a user changes nothing.
C29_AsStated ==
  /\ (userLast.op = "login" /\ userLast.userId \notin MockIds) =>
       /\ userError = "User not found"
       /\ currentUser = userLast.currentUser
       /\ userRecord = userLast.userRecord
  /\ userLast.op \in {"login", "logout", "updatePreferences"} =>
       /\ ~isLoading
       /\ userRecord = currentUser
  /\ (userLast.op = "updatePreferences" /\ userLast.currentUser = NoUser) =>
       /\ currentUser = userLast.currentUser
       /\ userRecord = userLast.userRecord
       /\ userError = userLast.userError
       /\ isLoading = userLast.isLoading

\* ------------------------------------------------------------ getContentById
\* The categories searched after the popular content, in the order of the loop.
Categories == <<"food", "art", "outdoor", "event", "shopping", "nightlife">>

\* The requests of the fallback: popular content, then one per category.
Fallbacks == <<"popular">> \o Categories
FallbackNames == {Fallbacks[k] : k \in 1 .. Len(Fallbacks)}

\* How a request fails: an HTTP error status, or no response at all.
RequestErrors == {"http error", "network error"}

\* null as an item.
NoItem == [content_id |-> 0, approach |-> "none"]

\* The recommendations a popular-content response may hold.
Recommendations ==
  {<<>>} \cup {<<[content_id |-> a, approach |-> "popular"]>> : a \in Contents}
         \cup {<<[content_id |-> a, approach |-> "popular"],
                 [content_id |-> b, approach |-> "trending"]>> : a, b \in Contents}

\* The promise of api.getPopularContent: the response data, or the error thrown
\* again by its catch.
getPopularContent(response) ==
  IF response \in RequestErrors THEN Rejected(response) ELSE Resolved(response)

\* recommendations.find(item => item.content_id === contentId): the index of the
\* first match, 0 when there is none.
findIndex(recommendations, id) ==
  LET hits == {k \in 1 .. Len(recommendations) : recommendations[k].content_id = id} IN
  IF hits = {} THEN 0 ELSE Least(hits)

\* The inner catch throwing the error on.
onFallbackErrorRethrow(error) == Rejected(error)

\* The inner catch: the error is logged, the promise resolves to null.
onFallbackError(error) == Resolved(NoItem)

\* getContentById is called; the direct request goes out.
GetContentById(id) ==
  /\ lookupPc \in {"idle", "done"}
  /\ lookupId' = id
  /\ lookupPc' = "direct"
  /\ lookupTrace' = <<>>
  /\ lookupSettled' = Pending
  /\ UNCHANGED <<homeVars, savedLast, userVars, joinVars, svcVars, pickVars, logVars, scoreVars>>

\* The direct request settles: the item is built from the response, or the
\* outer catch starts the fallback with the popular content.
DirectSettles ==
  /\ lookupPc = "direct"
  /\ \E response \in RequestErrors \cup {"item"} :
       /\ lookupTrace' = <<[request |-> "direct",
                            outcome |-> IF response = "item" THEN "found" ELSE response,
                            recommendations |-> <<>>]>>
       /\ IF response = "item"
          THEN /\ lookupSettled' = Resolved([content_id |-> lookupId, approach |-> "direct"])
               /\ lookupPc' = "done"
          ELSE /\ lookupSettled' = lookupSettled
               /\ lookupPc' = Fallbacks[1]
  /\ UNCHANGED <<lookupId, homeVars, savedLast, userVars, joinVars, svcVars, pickVars, logVars,
                 scoreVars>>

\* The position of a fallback request in the order of the fallback.
FallbackIndex(name) == CHOOSE k \in 1 .. Len(Fallbacks) : Fallbacks[k] = name

\* The trace without the recommendations of the requests left behind.
Forget(trace) == [k \in 1 .. Len(trace) |-> [trace[k] EXCEPT !.recommendations = <<>>]]

\* The fallback request in flight settles: a rejection ends the search with
\* null, a match ends it with the item, no match moves on to the next category
\* or, after the last one, ends it with null.
FallbackSettles ==
  /\ lookupPc \in FallbackNames
  /\ \E response \in RequestErrors \cup Recommendations :
       LET settled == getPopularContent(response)
           k == FallbackIndex(lookupPc)
           at == IF settled.state = "resolved" THEN findIndex(settled.value, lookupId) ELSE 0
           outcome == IF settled.state = "rejected" THEN response
                      ELSE IF at > 0 THEN "found" ELSE "not found" IN
       /\ lookupTrace' = Append(Forget(lookupTrace),
                                [request |-> lookupPc, outcome |-> outcome,
                                 recommendations |-> IF settled.state = "resolved"
                                                     THEN settled.value ELSE <<>>])
       /\ lookupSettled' = IF settled.state = "rejected" THEN onFallbackError(settled.value)
                           ELSE IF at > 0 THEN Resolved(settled.value[at])
                           ELSE IF k = Len(Fallbacks) THEN Resolved(NoItem)
                           ELSE lookupSettled
       /\ lookupPc' = IF settled.state = "resolved" /\ at = 0 /\ k < Len(Fallbacks)
                      THEN Fallbacks[k + 1] ELSE "done"
  /\ UNCHANGED <<lookupId, homeVars, savedLast, userVars, joinVars, svcVars, pickVars, logVars,
                 scoreVars>>

NextLookup ==
  \/ \E id \in Contents : GetContentById(id)
  \/ DirectSettles
  \/ FallbackSettles

SpecLookup == Init /\ [][NextLookup]_vars

\* The requests of a call in the order they are made.
Requests == <<"direct">> \o Fallbacks

\* C30: the promise of getContentById never rejects.  The requests go out in the
\* fixed order direct, popular, food, art, outdoor, event, shopping, nightlife,
\* each only after the one before it failed (direct) or held no match.  The
\* call ends with the item of the direct response, with the first item of the
\* first fallback response holding the requested id, or with null when a
\* fallback request failed or none of them held a match.
C30_LookupNeverRejects ==
  /\ lookupSettled.state # "rejected"
  /\ Len(lookupTrace) <= Len(Requests)
  /\ \A k \in 1 .. Len(lookupTrace) :
       /\ lookupTrace[k].request = Requests[k]
       /\ k < Len(lookupTrace) =>
            IF k = 1 THEN lookupTrace[k].outcome \in RequestErrors
            ELSE lookupTrace[k].outcome = "not found"
  /\ lookupPc = "done" <=> lookupSettled.state = "resolved"
  /\ lookupPc = "done" =>
       LET last == lookupTrace[Len(lookupTrace)]
           item == lookupSettled.value IN
       CASE last.outcome = "found" /\ last.request = "direct" ->
              item = [content_id |-> lookupId, approach |-> "direct"]
         [] last.outcome = "found" /\ last.request # "direct" ->
              \E at \in 1 .. Len(last.recommendations) :
                /\ item = last.recommendations[at]
                /\ item.content_id = lookupId
                /\ \A b \in 1 .. (at - 1) : last.recommendations[b].content_id # lookupId
         [] last.outcome \in RequestErrors -> item = NoItem /\ last.request # "direct"
         [] OTHER -> item = NoItem /\ Len(lookupTrace) = Len(Requests)

\* The item found in the last category, as the second item of its response.
C30_Witness ==
  /\ lookupPc = "done"
  /\ Len(lookupTrace) = Len(Requests)
  /\ lookupTrace[Len(Requests)].outcome = "found"
  /\ Len(lookupTrace[Len(Requests)].recommendations) > 1
  /\ lookupSettled.value = [content_id |-> lookupId, approach |-> "trending"]

====
